---- MODULE Spec2Model ----
(***************************************************************************)
(* ICC profile handling of lib/image/icc_profile.js: the two container     *)
(* scans (extractFromJPEG, extractFromPNG) and the ICC decoder (_parse).   *)
(*                                                                         *)
(* A buffer is a sequence of bytes (0..255); buffer offsets are 0-based as *)
(* in the source, so byte k of a buffer b is b[k + 1].  A string is a      *)
(* sequence of UTF-16 code units.                                          *)
(***************************************************************************)
EXTENDS Integers, Sequences, FiniteSets, TLC

VARIABLES
    op,               \* which entry point runs: "jpeg", "png" or "icc"
    buf,              \* the input buffer (jpeg / pngBuffer / this.buffer)
    pc,               \* position in the running function
    pos,              \* extractFromJPEG: let pos
    buffers,          \* extractFromJPEG: const buffers
    offset,           \* extractFromPNG: let offset
    profile,          \* parse: const profile
    tagCount,         \* parse: const tagCount
    i,                \* parse: the tag loop's i
    tagHeaderOffset,  \* parse: let tagHeaderOffset
    iters,            \* loop iterations executed so far (history)
    tagReads,         \* offsets of the 32-bit reads the last tag iteration
                      \* attempted at its tag's data (history)
    result            \* how the call ended

vars == <<op, buf, pc, pos, buffers, offset, profile, tagCount, i,
          tagHeaderOffset, iters, tagReads, result>>

(***************************************************************************)
(* Bounds of the input space.                                              *)
(***************************************************************************)
MaxSegs == 2
MaxData == 1
MaxChunks == 2
MaxShort == 41
MaxTags == 2
U32Cap == 268435456

(***************************************************************************)
(* Buffer primitives (Node's Buffer).                                      *)
(***************************************************************************)
Min(a, b) == IF a < b THEN a ELSE b

Max(a, b) == IF a > b THEN a ELSE b

\* readUInt16BE / readUInt32BE throw a RangeError unless the whole field
\* lies inside the buffer.
InRange(b, off, n) == off >= 0 /\ off + n <= Len(b)

readUInt16BE(b, off) == b[off + 1] * 256 + b[off + 2]

\* The model's integers are 32-bit, JavaScript's numbers are not: a field of
\* U32Cap or more reads as U32Cap.  Every such value is only compared with
\* a buffer length or a small constant, looked up in a table of smaller
\* keys, or added to an offset that bounds a slice, and U32Cap is larger
\* than any of these.
readUInt32BE(b, off) ==
    LET hi == b[off + 1] * 256 + b[off + 2]
        lo == b[off + 3] * 256 + b[off + 4]
    IN IF hi >= U32Cap \div 65536 THEN U32Cap ELSE hi * 65536 + lo

\* Buffer.prototype.slice(start, end): a negative index counts from the
\* end, both indexes are clamped to the buffer, an empty range is empty.
SliceIndex(b, k) == IF k < 0 THEN Max(Len(b) + k, 0) ELSE Min(k, Len(b))

slice(b, start, end) ==
    LET s == SliceIndex(b, start)
        e == SliceIndex(b, end)
    IN IF e <= s THEN <<>> ELSE SubSeq(b, s + 1, e)

\* toString('ascii'): every byte loses its top bit.
asciiToString(b) == [k \in 1..Len(b) |-> b[k] % 128]

\* String.prototype.startsWith
startsWith(s, prefix) ==
    Len(s) >= Len(prefix) /\ SubSeq(s, 1, Len(prefix)) = prefix

\* Buffer.concat
RECURSIVE concat(_)
concat(list) ==
    IF list = <<>> THEN <<>> ELSE Head(list) \o concat(Tail(list))

\* Buffer.prototype.indexOf(0): the 0-based index of the first zero byte,
\* or -1.
indexOfZero(b) ==
    IF \E k \in 1..Len(b) : b[k] = 0
    THEN (CHOOSE k \in 1..Len(b) : b[k] = 0 /\ \A j \in 1..(k - 1) : b[j] # 0) - 1
    ELSE -1

(***************************************************************************)
(* Outcomes of a call.                                                     *)
(***************************************************************************)
Pending == [kind |-> "pending", msg |-> "", val |-> <<>>]

\* return; (undefined)
None == [kind |-> "none", msg |-> "", val |-> <<>>]

\* return <a buffer>
Bytes(v) == [kind |-> "bytes", msg |-> "", val |-> v]

\* return profile
Record == [kind |-> "record", msg |-> "", val |-> <<>>]

\* throw new Error(msg)
Thrown(msg) == [kind |-> "Error", msg |-> msg, val |-> <<>>]

\* the RangeError (ERR_OUT_OF_RANGE) of a read outside the buffer
RangeError == [kind |-> "RangeError", msg |-> "out of range", val |-> <<>>]

(***************************************************************************)
(* extractFromJPEG                                                         *)
(***************************************************************************)
ICC_PROFILE == <<73, 67, 67, 95, 80, 82, 79, 70, 73, 76, 69>>

\* the test of lines 9-11 on the segment at p
JpegIsICC(b, p) ==
    /\ readUInt16BE(b, p) = 65506
    /\ startsWith(asciiToString(slice(b, p + 4, p + 18)), ICC_PROFILE)

\* the fragment of line 12
JpegData(b, p) == slice(b, p + 18, p + readUInt16BE(b, p + 2) + 2)

\* the cursor moved by the length field alone
JpegAdvanceByLength(b, p) == p + readUInt16BE(b, p + 2)

\* line 16
JpegAdvance(b, p) == p + readUInt16BE(b, p + 2) + 2

JpegCond == pos < Len(buf) - 4

\* one iteration of the while loop
JpegLoop ==
    /\ op = "jpeg" /\ pc = "loop" /\ JpegCond
    /\ iters' = iters + 1
    /\ IF ~(InRange(buf, pos, 2) /\ InRange(buf, pos + 2, 2))
       THEN /\ result' = RangeError
            /\ pc' = "done"
            /\ UNCHANGED <<pos, buffers>>
       ELSE /\ buffers' = IF JpegIsICC(buf, pos)
                          THEN Append(buffers, JpegData(buf, pos))
                          ELSE buffers
            /\ pos' = JpegAdvance(buf, pos)
            /\ UNCHANGED <<pc, result>>
    /\ UNCHANGED <<op, buf, offset, profile, tagCount, i, tagHeaderOffset, tagReads>>

\* lines 18-19
JpegReturn ==
    /\ op = "jpeg" /\ pc = "loop" /\ ~JpegCond
    /\ result' = IF Len(buffers) = 0 THEN None ELSE Bytes(concat(buffers))
    /\ pc' = "done"
    /\ UNCHANGED <<op, buf, pos, buffers, offset, profile, tagCount, i,
                   tagHeaderOffset, iters, tagReads>>

(***************************************************************************)
(* JPEG inputs: the start-of-image marker, up to MaxSegs segments, an      *)
(* optional end-of-image marker.  A segment's length field is its true     *)
(* length, or overshoots the segment by 3, or is 0.                        *)
(***************************************************************************)
U16(n) == <<n \div 256, n % 256>>

U32(n) == <<n \div 16777216, (n \div 65536) % 256, (n \div 256) % 256, n % 256>>

\* n data bytes that name the segment they belong to
DataBytes(j, n) == [k \in 1..n |-> 16 * j + k]

\* ICC_PROFILE\0 and the sequence bytes 1 of 1
IccTag == ICC_PROFILE \o <<0, 1, 1>>

\* the same with the top bit of its 'I' set
HighTag == <<201>> \o Tail(IccTag)

ExifTag == <<69, 120, 105, 102, 0, 0, 1, 2, 3, 4, 5, 6, 7, 8>>

\* marker, length field (over: added to the true length; zero: 0), payload
Segment(marker, payload, over, zero) ==
    U16(marker) \o U16(IF zero THEN 0 ELSE 2 + Len(payload) + over) \o payload

JpegSegment(j) ==
    { Segment(65506, IccTag \o DataBytes(j, n), 0, FALSE) : n \in 0..MaxData }
    \cup
    { Segment(65506, IccTag \o DataBytes(j, MaxData), 3, FALSE),
      Segment(65506, HighTag \o DataBytes(j, MaxData), 0, FALSE),
      Segment(65506, ExifTag, 0, FALSE),
      Segment(65506, ExifTag, 3, FALSE),
      Segment(65506, ICC_PROFILE, 0, FALSE),
      Segment(65505, IccTag \o DataBytes(j, MaxData), 0, FALSE),
      Segment(65505, ExifTag, 0, TRUE) }

RECURSIVE JpegBodies(_)
JpegBodies(n) ==
    IF n = 0 THEN {<<>>}
    ELSE LET shorter == JpegBodies(n - 1)
         IN shorter \cup
            { b \o s : b \in shorter, s \in JpegSegment(n) }

JpegInputs ==
    { <<255, 216>> \o b \o e : b \in JpegBodies(MaxSegs), e \in {<<>>, <<255, 217>>} }

(***************************************************************************)
(* zlib.inflateSync, on zlib streams made of stored (uncompressed) deflate *)
(* blocks: the two header bytes, the blocks, the big-endian Adler-32 of    *)
(* the output.  Input that follows the end of the stream is ignored.       *)
(* Huffman-coded blocks (block types 1 and 2) are outside the input space. *)
(***************************************************************************)
RECURSIVE Adler(_, _, _)
Adler(d, a, b) ==
    IF d = <<>> THEN b * 65536 + a
    ELSE Adler(Tail(d), (a + Head(d)) % 65521, (b + ((a + Head(d)) % 65521)) % 65521)

Adler32(d) == Adler(d, 1, 0)

InflateOk(out) == [ok |-> TRUE, out |-> out, msg |-> ""]

InflateErr(msg) == [ok |-> FALSE, out |-> <<>>, msg |-> msg]

\* the blocks from 0-based position p on, out being the output so far
RECURSIVE InflateBlocks(_, _, _)
InflateBlocks(b, p, out) ==
    IF p + 1 > Len(b) THEN InflateErr("unexpected end of file")
    ELSE LET final == b[p + 1] % 2
             btype == (b[p + 1] \div 2) % 4
         IN IF btype = 3 THEN InflateErr("invalid block type")
            ELSE IF btype # 0 THEN InflateErr("huffman block")
            ELSE IF p + 5 > Len(b) THEN InflateErr("unexpected end of file")
            ELSE LET len == b[p + 2] + 256 * b[p + 3]
                     nlen == b[p + 4] + 256 * b[p + 5]
                 IN IF len + nlen # 65535
                    THEN InflateErr("invalid stored block lengths")
                    ELSE IF p + 5 + len > Len(b)
                    THEN InflateErr("unexpected end of file")
                    ELSE LET out2 == out \o SubSeq(b, p + 6, p + 5 + len)
                             q == p + 5 + len
                         IN IF final = 0 THEN InflateBlocks(b, q, out2)
                            ELSE IF q + 4 > Len(b)
                            THEN InflateErr("unexpected end of file")
                            ELSE IF readUInt32BE(b, q) # Adler32(out2)
                            THEN InflateErr("incorrect data check")
                            ELSE InflateOk(out2)

inflateSync(b) ==
    IF Len(b) < 2 THEN InflateErr("unexpected end of file")
    ELSE IF (b[1] * 256 + b[2]) % 31 # 0 THEN InflateErr("incorrect header check")
    ELSE IF b[1] % 16 # 8 THEN InflateErr("unknown compression method")
    ELSE IF b[1] \div 16 > 7 THEN InflateErr("invalid window size")
    ELSE IF (b[2] \div 32) % 2 = 1 THEN InflateErr("Missing dictionary")
    ELSE InflateBlocks(b, 2, <<>>)

(***************************************************************************)
(* extractFromPNG                                                          *)
(***************************************************************************)
IEND == <<73, 69, 78, 68>>

iCCP == <<105, 67, 67, 80>>

\* lines 35-37
PngChunkType(b, off) == asciiToString(slice(b, off + 4, off + 8))

\* lines 44-46
PngChunkData(b, off) == slice(b, off + 8, off + 8 + readUInt32BE(b, off))

\* lines 49-68: what an iCCP chunk's data leads to
PngICCP(data) ==
    LET nullPos == indexOfZero(data)
    IN IF nullPos = -1 \/ nullPos = Len(data) - 1
       THEN Thrown("Invalid iCCP chunk format")
       ELSE IF data[nullPos + 2] # 0
       THEN Thrown("Unsupported compression method")
       ELSE LET inflated == inflateSync(slice(data, nullPos + 2, Len(data)))
            IN IF inflated.ok THEN Bytes(inflated.out)
               ELSE Thrown("Failed to decompress ICC profile: " \o inflated.msg)

\* line 71
PngAdvance(b, off) == off + readUInt32BE(b, off) + 12

PngCond == offset < Len(buf)

\* one iteration of the while loop
PngLoop ==
    /\ op = "png" /\ pc = "loop" /\ PngCond
    /\ iters' = iters + 1
    /\ IF ~InRange(buf, offset, 4)
       THEN /\ result' = RangeError
            /\ pc' = "done"
            /\ UNCHANGED offset
       ELSE IF PngChunkType(buf, offset) = IEND
       THEN /\ pc' = "break"
            /\ UNCHANGED <<offset, result>>
       ELSE IF PngChunkType(buf, offset) = iCCP
       THEN /\ result' = PngICCP(PngChunkData(buf, offset))
            /\ pc' = "done"
            /\ UNCHANGED offset
       ELSE /\ offset' = PngAdvance(buf, offset)
            /\ UNCHANGED <<pc, result>>
    /\ UNCHANGED <<op, buf, pos, buffers, profile, tagCount, i, tagHeaderOffset, tagReads>>

\* line 74: after the loop, by break or by its condition
PngReturn ==
    /\ op = "png"
    /\ pc = "break" \/ (pc = "loop" /\ ~PngCond)
    /\ result' = None
    /\ pc' = "done"
    /\ UNCHANGED <<op, buf, pos, buffers, offset, profile, tagCount, i,
                   tagHeaderOffset, iters, tagReads>>

(***************************************************************************)
(* PNG inputs: the 8-byte signature, up to MaxChunks chunks, and nothing,  *)
(* one stray byte or five stray bytes after them.  A chunk's length field  *)
(* is its data's length, or overshoots it.                                 *)
(***************************************************************************)
PngSignature == <<137, 80, 78, 71, 13, 10, 26, 10>>

\* the zlib stream of d as one stored block
ZlibStored(d) ==
    <<120, 1, 1, Len(d) % 256, Len(d) \div 256,
      255 - (Len(d) % 256), 255 - (Len(d) \div 256)>> \o d \o U32(Adler32(d))

Chunk(type, data, over) == U32(Len(data) + over) \o type \o data \o <<170, 187, 204, 221>>

IDAT == <<73, 68, 65, 84>>

PngChunk(j) ==
    LET stream == ZlibStored(DataBytes(j, 2))
    IN { Chunk(IDAT, <<>>, 0),
         Chunk(IDAT, DataBytes(j, 2), 0),
         Chunk(IDAT, <<>>, 9),
         Chunk(IEND, <<>>, 0),
         Chunk(<<201, 69, 78, 68>>, <<>>, 0),                  \* 'I' with its top bit set
         Chunk(iCCP, <<65, 0, 0>> \o stream, 0),
         Chunk(iCCP, <<65, 0, 0>> \o stream, 9),
         Chunk(iCCP, <<0, 0>> \o stream, 0),                   \* empty profile name
         Chunk(<<233, 67, 67, 80>>, <<65, 0, 0>> \o stream, 0), \* 'i' with its top bit set
         Chunk(iCCP, <<>>, 0),
         Chunk(iCCP, <<65, 66>>, 0),
         Chunk(iCCP, <<65, 0>>, 0),
         Chunk(iCCP, <<65, 0, 1>> \o stream, 0),
         Chunk(iCCP, <<65, 0, 1>>, 9),
         Chunk(iCCP, <<65, 0, 0, 120, 1, 1>>, 0),
         Chunk(iCCP, <<65, 0, 0>> \o SubSeq(stream, 1, Len(stream) - 1) \o <<0>>, 0) }

RECURSIVE PngBodies(_)
PngBodies(n) ==
    IF n = 0 THEN {<<>>}
    ELSE LET shorter == PngBodies(n - 1)
         IN shorter \cup { b \o c : b \in shorter, c \in PngChunk(n) }

PngInputs ==
    { PngSignature \o b \o t :
        b \in PngBodies(MaxChunks), t \in {<<>>, <<0>>, <<0, 0, 0, 0, 73>>} }

(***************************************************************************)
(* Strings of the ICC decoder.                                             *)
(***************************************************************************)
IsCont(b, k, lo, hi) == k <= Len(b) /\ b[k] >= lo /\ b[k] <= hi

\* The bounds of the byte that may follow lead byte c in well-formed UTF-8.
SecondLo(c) == IF c = 224 THEN 160 ELSE IF c = 240 THEN 144 ELSE 128

SecondHi(c) == IF c = 237 THEN 159 ELSE IF c = 244 THEN 143 ELSE 191

\* Buffer.prototype.toString() (UTF-8) from 1-based position k on: an
\* ill-formed sequence becomes one U+FFFD per maximal subpart, a code point
\* above U+FFFF a surrogate pair.
RECURSIVE utf8From(_, _)
utf8From(b, k) ==
    IF k > Len(b) THEN <<>>
    ELSE LET c == b[k]
         IN IF c < 128 THEN <<c>> \o utf8From(b, k + 1)
            ELSE IF c >= 194 /\ c <= 223
            THEN IF IsCont(b, k + 1, 128, 191)
                 THEN <<(c % 32) * 64 + (b[k + 1] % 64)>> \o utf8From(b, k + 2)
                 ELSE <<65533>> \o utf8From(b, k + 1)
            ELSE IF c >= 224 /\ c <= 239
            THEN IF ~IsCont(b, k + 1, SecondLo(c), SecondHi(c))
                 THEN <<65533>> \o utf8From(b, k + 1)
                 ELSE IF ~IsCont(b, k + 2, 128, 191)
                 THEN <<65533>> \o utf8From(b, k + 2)
                 ELSE <<(c % 16) * 4096 + (b[k + 1] % 64) * 64 + (b[k + 2] % 64)>>
                      \o utf8From(b, k + 3)
            ELSE IF c >= 240 /\ c <= 244
            THEN IF ~IsCont(b, k + 1, SecondLo(c), SecondHi(c))
                 THEN <<65533>> \o utf8From(b, k + 1)
                 ELSE IF ~IsCont(b, k + 2, 128, 191)
                 THEN <<65533>> \o utf8From(b, k + 2)
                 ELSE IF ~IsCont(b, k + 3, 128, 191)
                 THEN <<65533>> \o utf8From(b, k + 3)
                 ELSE LET cp == (c % 8) * 262144 + (b[k + 1] % 64) * 4096
                                + (b[k + 2] % 64) * 64 + (b[k + 3] % 64) - 65536
                      IN <<55296 + (cp \div 1024), 56320 + (cp % 1024)>>
                         \o utf8From(b, k + 4)
            ELSE <<65533>> \o utf8From(b, k + 1)

toString(b) == utf8From(b, 1)

\* the code units String.prototype.trim removes: WhiteSpace and LineTerminator
IsWhiteSpace(c) ==
    \/ c \in {9, 10, 11, 12, 13, 32, 160, 5760, 8232, 8233, 8239, 8287, 12288, 65279}
    \/ (c >= 8192 /\ c <= 8202)

\* a trim that takes nulls for white space
trimNulls(s) ==
    LET keep == { k \in 1..Len(s) : ~IsWhiteSpace(s[k]) /\ s[k] # 0 }
    IN IF keep = {} THEN <<>>
       ELSE SubSeq(s, CHOOSE k \in keep : \A j \in keep : k <= j,
                      CHOOSE k \in keep : \A j \in keep : k >= j)

\* String.prototype.trim: at both ends
trim(s) ==
    LET keep == { k \in 1..Len(s) : ~IsWhiteSpace(s[k]) }
    IN IF keep = {} THEN <<>>
       ELSE SubSeq(s, CHOOSE k \in keep : \A j \in keep : k <= j,
                      CHOOSE k \in keep : \A j \in keep : k >= j)

\* String.prototype.toLowerCase on the letters A-Z.  No other character
\* that fits a four-byte field lower-cases into a key of valueMap, the one
\* place the result is used.
toLowerCase(s) ==
    [k \in 1..Len(s) |-> IF s[k] >= 65 /\ s[k] <= 90 THEN s[k] + 32 ELSE s[k]]

versionMap ==
    (33554432 :> <<50, 46, 48>>) @@ (34603008 :> <<50, 46, 49>>) @@
    (37748736 :> <<50, 46, 52>>) @@ (67108864 :> <<52, 46, 48>>) @@
    (69206016 :> <<52, 46, 50>>) @@ (70254592 :> <<52, 46, 51>>)

intentMap ==
    (0 :> <<80, 101, 114, 99, 101, 112, 116, 117, 97, 108>>) @@
    (1 :> <<82, 101, 108, 97, 116, 105, 118, 101>>) @@
    (2 :> <<83, 97, 116, 117, 114, 97, 116, 105, 111, 110>>) @@
    (3 :> <<65, 98, 115, 111, 108, 117, 116, 101>>)

valueMap ==
    (<<115, 99, 110, 114>> :> <<83, 99, 97, 110, 110, 101, 114>>) @@              \* scnr Scanner
    (<<109, 110, 116, 114>> :> <<77, 111, 110, 105, 116, 111, 114>>) @@           \* mntr Monitor
    (<<112, 114, 116, 114>> :> <<80, 114, 105, 110, 116, 101, 114>>) @@           \* prtr Printer
    (<<108, 105, 110, 107>> :> <<76, 105, 110, 107>>) @@                          \* link Link
    (<<97, 98, 115, 116>> :> <<65, 98, 115, 116, 114, 97, 99, 116>>) @@           \* abst Abstract
    (<<115, 112, 97, 99>> :> <<83, 112, 97, 99, 101>>) @@                         \* spac Space
    (<<110, 109, 99, 108>> :>
       <<78, 97, 109, 101, 100, 32, 99, 111, 108, 111, 114>>) @@                  \* nmcl Named color
    (<<97, 112, 112, 108>> :> <<65, 112, 112, 108, 101>>) @@                      \* appl Apple
    (<<97, 100, 98, 101>> :> <<65, 100, 111, 98, 101>>) @@                        \* adbe Adobe
    (<<109, 115, 102, 116>> :> <<77, 105, 99, 114, 111, 115, 111, 102, 116>>) @@  \* msft Microsoft
    (<<115, 117, 110, 119>> :>
       <<83, 117, 110, 32, 77, 105, 99, 114, 111, 115, 121, 115, 116, 101, 109, 115>>) @@  \* sunw
    (<<115, 103, 105>> :>
       <<83, 105, 108, 105, 99, 111, 110, 32, 71, 114, 97, 112, 104, 105, 99, 115>>) @@    \* sgi
    (<<116, 103, 110, 116>> :> <<84, 97, 108, 105, 103, 101, 110, 116>>)          \* tgnt Taligent

tagMap ==
    (<<100, 101, 115, 99>> :> "description") @@                   \* desc
    (<<99, 112, 114, 116>> :> "copyright") @@                     \* cprt
    (<<100, 109, 100, 100>> :> "deviceModelDescription") @@       \* dmdd
    (<<118, 117, 101, 100>> :> "viewingConditionsDescription")    \* vued

\* lines 121-124
TrimmedAt(b, off) == trim(toString(slice(b, off, off + 4)))

getContentAtOffsetAsString(b, off) ==
    LET value == TrimmedAt(b, off)
    IN IF toLowerCase(value) \in DOMAIN valueMap
       THEN valueMap[toLowerCase(value)]
       ELSE value

hasContentAtOffset(b, off) == readUInt32BE(b, off) # 0

\* data[k] of a 0-based k; data[i + 1] past the end is undefined, the sum
\* NaN, and String.fromCharCode(NaN) the code unit 0
readStringUTF16BE(b, start, end) ==
    LET data == slice(b, start, end)
    IN [k \in 1..((Len(data) + 1) \div 2) |->
          IF 2 * k <= Len(data) THEN data[2 * k - 1] * 256 + data[2 * k] ELSE 0]

(***************************************************************************)
(* The attribute record: every recognized field, absent or a string.       *)
(***************************************************************************)
Absent == [has |-> FALSE, s |-> <<>>]

Str(v) == [has |-> TRUE, s |-> v]

\* lines 157-166
StringAttrs ==
    <<<<4, "cmm">>, <<12, "deviceClass">>, <<16, "colorSpace">>,
      <<20, "connectionSpace">>, <<40, "platform">>, <<48, "manufacturer">>,
      <<52, "model">>, <<80, "creator">>>>

AttrNames ==
    {"version", "intent", "description", "copyright", "deviceModelDescription",
     "viewingConditionsDescription"} \cup { StringAttrs[k][2] : k \in 1..8 }

NoProfile == [a \in AttrNames |-> Absent]

Invalid(reason) == Thrown("Invalid ICC profile: " \o reason)

acsp == <<97, 99, 115, 112>>

\* the checks with the signature checked first
HeaderCheckSignatureFirst(b) ==
    IF ~InRange(b, 0, 4) THEN RangeError
    ELSE IF toString(slice(b, 36, 40)) # acsp THEN Invalid("missing signature")
    ELSE IF readUInt32BE(b, 0) # Len(b) THEN Invalid("length mismatch")
    ELSE Pending

\* lines 142-150: the two structural checks; Pending when both pass
HeaderCheck(b) ==
    IF ~InRange(b, 0, 4) THEN RangeError
    ELSE IF readUInt32BE(b, 0) # Len(b) THEN Invalid("length mismatch")
    ELSE IF toString(slice(b, 36, 40)) # acsp THEN Invalid("missing signature")
    ELSE Pending

ParseHeader ==
    /\ op = "icc" /\ pc = "start"
    /\ result' = HeaderCheck(buf)
    /\ pc' = IF HeaderCheck(buf) = Pending THEN "attrs" ELSE "done"
    /\ UNCHANGED <<op, buf, pos, buffers, offset, profile, tagCount, i,
                   tagHeaderOffset, iters, tagReads>>

\* the value line 153, 154 or 168 gives attribute a
AttrValue(b, a) ==
    IF a = "version"
    THEN IF readUInt32BE(b, 8) \in DOMAIN versionMap
         THEN Str(versionMap[readUInt32BE(b, 8)]) ELSE Absent
    ELSE IF a = "intent"
    THEN IF readUInt32BE(b, 64) \in DOMAIN intentMap
         THEN Str(intentMap[readUInt32BE(b, 64)]) ELSE Absent
    ELSE IF \E k \in 1..8 : StringAttrs[k][2] = a
    THEN LET off == (CHOOSE x \in { StringAttrs[k] : k \in 1..8 } : x[2] = a)[1]
         IN IF hasContentAtOffset(b, off)
            THEN Str(getContentAtOffsetAsString(b, off)) ELSE Absent
    ELSE Absent

\* lines 152-173: the scalar attributes and the tag count.  The reads are
\* at 8, 64, 4, 12, 16, 20, 40, 48, 52, 80 and 128; the first one outside
\* the buffer throws.
ParseAttrs ==
    /\ op = "icc" /\ pc = "attrs"
    /\ IF \E off \in {8, 64, 4, 12, 16, 20, 40, 48, 52, 80, 128} : ~InRange(buf, off, 4)
       THEN /\ result' = RangeError
            /\ pc' = "done"
            /\ UNCHANGED <<profile, tagCount>>
       ELSE /\ profile' = [a \in AttrNames |-> AttrValue(buf, a)]
            /\ tagCount' = readUInt32BE(buf, 128)
            /\ pc' = "tags"
            /\ UNCHANGED result
    /\ tagHeaderOffset' = 132
    /\ i' = 0
    /\ UNCHANGED <<op, buf, pos, buffers, offset, iters, tagReads>>

(***************************************************************************)
(* The tag table walk, lines 174-230.                                      *)
(***************************************************************************)
desc == <<100, 101, 115, 99>>

text == <<116, 101, 120, 116>>

mluc == <<109, 108, 117, 99>>

\* The offsets of the 32-bit reads one iteration attempts relative to the
\* tag's data offset tOff, in order, up to the first that throws.
TagReads(b, tOff, tagType) ==
    IF tagType = desc THEN {tOff + 8}
    ELSE IF tagType = mluc
    THEN IF ~InRange(b, tOff + 8, 4) THEN {tOff + 8}
         ELSE IF ~InRange(b, tOff + 12, 4) \/ readUInt32BE(b, tOff + 12) # 12
                 \/ readUInt32BE(b, tOff + 8) = 0
         THEN {tOff + 8, tOff + 12}
         ELSE IF ~InRange(b, tOff + 20, 4) THEN {tOff + 8, tOff + 12, tOff + 20}
         ELSE {tOff + 8, tOff + 12, tOff + 20, tOff + 24}
    ELSE {}

\* lines 185-227 for a recognized entry that passed line 182: the outcome
\* (Pending to go on) and the profile after it
TagBody(b, prof, tagSignature, tOff, tagSize) ==
    LET tagType == getContentAtOffsetAsString(b, tOff)
        go(p) == [res |-> Pending, prof |-> p]
        stop(r) == [res |-> r, prof |-> prof]
        name == tagMap[tagSignature]
    IN IF \E r \in TagReads(b, tOff, tagType) : ~InRange(b, r, 4)
       THEN stop(RangeError)
       ELSE IF tagType = desc
       THEN IF readUInt32BE(b, tOff + 8) > tagSize
            THEN stop(Invalid("description tag value size out of bounds"))
            ELSE go([prof EXCEPT ![name] =
                       Str(toString(slice(b, tOff + 12,
                                          tOff + readUInt32BE(b, tOff + 8) + 11)))])
       ELSE IF tagType = text
       THEN go([prof EXCEPT ![name] =
                  Str(toString(slice(b, tOff + 8, tOff + tagSize - 7)))])
       ELSE IF tagType = mluc
       THEN IF readUInt32BE(b, tOff + 12) # 12
            THEN stop(Invalid("mluc name record size must be 12"))
            ELSE IF readUInt32BE(b, tOff + 8) > 0
            THEN go([prof EXCEPT ![name] =
                       Str(readStringUTF16BE(b,
                             tOff + readUInt32BE(b, tOff + 24),
                             tOff + readUInt32BE(b, tOff + 24)
                                  + readUInt32BE(b, tOff + 20)))])
            ELSE go(prof)
       ELSE go(prof)

TagCond == i < tagCount

\* one iteration of the for loop
ParseTag ==
    /\ op = "icc" /\ pc = "tags" /\ TagCond
    /\ iters' = iters + 1
    /\ LET tagSignature == getContentAtOffsetAsString(buf, tagHeaderOffset)
           next == /\ tagHeaderOffset' = tagHeaderOffset + 12
                   /\ i' = i + 1
                   /\ UNCHANGED <<pc, result>>
           throw(r) == /\ result' = r
                       /\ pc' = "done"
                       /\ UNCHANGED <<tagHeaderOffset, i>>
       IN IF tagSignature \notin DOMAIN tagMap
          THEN next /\ tagReads' = {} /\ UNCHANGED profile
          ELSE IF ~InRange(buf, tagHeaderOffset + 4, 4)
                  \/ ~InRange(buf, tagHeaderOffset + 8, 4)
          THEN throw(RangeError) /\ tagReads' = {} /\ UNCHANGED profile
          ELSE LET tOff == readUInt32BE(buf, tagHeaderOffset + 4)
                   tagSize == readUInt32BE(buf, tagHeaderOffset + 8)
                   body == TagBody(buf, profile, tagSignature, tOff, tagSize)
               IN IF tOff > Len(buf)
                  THEN /\ throw(Invalid("tag offset out of bounds"))
                       /\ tagReads' = {}
                       /\ UNCHANGED profile
                  ELSE /\ tagReads' =
                            TagReads(buf, tOff, getContentAtOffsetAsString(buf, tOff))
                       /\ profile' = body.prof
                       /\ IF body.res = Pending THEN next ELSE throw(body.res)
    /\ UNCHANGED <<op, buf, pos, buffers, offset, tagCount>>

\* line 231
ParseReturn ==
    /\ op = "icc" /\ pc = "tags" /\ ~TagCond
    /\ result' = Record
    /\ pc' = "done"
    /\ UNCHANGED <<op, buf, pos, buffers, offset, profile, tagCount, i,
                   tagHeaderOffset, iters, tagReads>>

(***************************************************************************)
(* ICC inputs.                                                             *)
(***************************************************************************)
Zeros(n) == [k \in 1..n |-> 0]

\* b with bytes written at 0-based offset off, as far as b reaches
Patch(b, off, bytes) ==
    [k \in 1..Len(b) |->
       IF k > off /\ k <= off + Len(bytes) THEN bytes[k - off] ELSE b[k]]

\* Buffers of every small length and of the lengths around the reads at 64,
\* 80 and 128, zero but for a length field (right, or one too large) and a
\* signature (right, wrong in its last letter, or zero).
ShortLens == (0..MaxShort) \cup {67, 68, 83, 84, 131}

ShortInputs ==
    { Patch(Patch(Zeros(n), 0, U32(n + d)), 36, sg) :
        n \in ShortLens, d \in {0, 1},
        sg \in {acsp, <<97, 99, 115, 80>>, <<0, 0, 0, 0>>} }

\* the contents tried for a four-byte code
Codes ==
    { <<0, 0, 0, 0>>,
      <<109, 110, 116, 114>>,    \* mntr
      <<77, 78, 84, 82>>,        \* MNTR
      <<77, 110, 84, 114>>,      \* MnTr
      <<115, 103, 105, 32>>,     \* sgi and a space
      <<115, 103, 105, 0>>,      \* sgi and a null
      <<32, 115, 103, 105>>,     \* a space and sgi
      <<9, 115, 103, 105>>,      \* a tab and sgi
      <<97, 98, 99, 100>>,       \* abcd
      <<82, 71, 66, 32>>,        \* RGB and a space
      <<32, 32, 32, 32>>,        \* four spaces
      <<97, 98, 0, 0>>,          \* ab and two nulls
      <<0, 0, 0, 32>>,           \* three nulls and a space
      <<233, 97, 98, 32>> }      \* a byte that is no UTF-8, ab and a space

\* A 132-byte profile with no tags: code c1 in the field at offset a, code
\* c2 in the seven other fields, and a version and intent.
AttrInput(a, c1, c2, ver, intent) ==
    LET base == Patch(Patch(Zeros(132), 0, U32(132)), 36, acsp)
        fields == [k \in 1..132 |->
                     IF \E j \in 1..8 : k > StringAttrs[j][1] /\ k <= StringAttrs[j][1] + 4
                     THEN LET off == CHOOSE o \in { StringAttrs[j][1] : j \in 1..8 } :
                                        k > o /\ k <= o + 4
                          IN IF off = a THEN c1[k - off] ELSE c2[k - off]
                     ELSE base[k]]
    IN Patch(Patch(fields, 8, U32(ver)), 64, U32(intent))

AttrInputs ==
    { AttrInput(a, c1, c2, vi[1], vi[2]) :
        a \in { StringAttrs[j][1] : j \in 1..8 },
        c1 \in Codes,
        c2 \in { <<0, 0, 0, 0>>, <<97, 112, 112, 108>>, <<88, 89, 90, 32>> },
        vi \in { <<70254592, 0>>, <<34603008, 3>>, <<5, 7>> } }

Z4 == <<0, 0, 0, 0>>

\* tag data: a textDescription, a text, a multi-localized Unicode, another
DescBlock(n, txt) == desc \o Z4 \o U32(n) \o txt \o <<0>>

TextBlock(txt) == text \o Z4 \o txt \o <<0>>

MlucBlock(n, recSize, nameLen, units) ==
    mluc \o Z4 \o U32(n) \o U32(recSize) \o <<101, 110, 85, 83>>
         \o U32(nameLen) \o U32(28) \o units

Copyright == <<67, 111, 112, 121, 114, 105, 103, 104, 116>>

\* The tags tried.  at: where the entry points ("own": at its data, "len":
\* at the end of the buffer, "past": one byte further, "huge": 0xFFFFFFFF);
\* size: the entry's size field, -1 for the length of the data.
TagKinds ==
    << [sig |-> <<99, 112, 114, 116>>, blk |-> DescBlock(10, Copyright), at |-> "own", size |-> -1],
       [sig |-> <<99, 112, 114, 116>>, blk |-> DescBlock(10, Copyright), at |-> "own", size |-> 9],
       [sig |-> desc, blk |-> DescBlock(0, <<>>), at |-> "own", size |-> -1],
       [sig |-> <<99, 112, 114, 116>>,
        blk |-> TextBlock(<<72, 101, 108, 108, 111, 44, 32, 119, 111, 114, 108, 100>>),
        at |-> "own", size |-> -1],
       [sig |-> <<100, 109, 100, 100>>, blk |-> MlucBlock(1, 12, 4, <<0, 72, 0, 105>>),
        at |-> "own", size |-> -1],
       [sig |-> <<100, 109, 100, 100>>, blk |-> MlucBlock(1, 12, 3, <<0, 72, 0, 105>>),
        at |-> "own", size |-> -1],
       [sig |-> <<118, 117, 101, 100>>, blk |-> MlucBlock(0, 12, 0, <<>>),
        at |-> "own", size |-> -1],
       [sig |-> desc, blk |-> MlucBlock(1, 10, 4, <<0, 72, 0, 105>>), at |-> "own", size |-> -1],
       [sig |-> desc, blk |-> <<88, 89, 90, 32>> \o Zeros(16), at |-> "own", size |-> -1],
       [sig |-> <<120, 120, 120, 120>>, blk |-> Z4, at |-> "past", size |-> -1],
       [sig |-> desc, blk |-> Z4, at |-> "past", size |-> -1],
       [sig |-> desc, blk |-> Z4, at |-> "len", size |-> -1],
       [sig |-> <<99, 112, 114, 116>>, blk |-> Z4, at |-> "huge", size |-> -1] >>

RECURSIVE BlocksLen(_, _)
BlocksLen(ks, j) == IF j = 0 THEN 0 ELSE BlocksLen(ks, j - 1) + Len(TagKinds[ks[j]].blk)

TagEntry(ks, j, total) ==
    LET kind == TagKinds[ks[j]]
    IN kind.sig
       \o (IF kind.at = "own" THEN U32(132 + 12 * Len(ks) + BlocksLen(ks, j - 1))
           ELSE IF kind.at = "len" THEN U32(total)
           ELSE IF kind.at = "past" THEN U32(total + 1)
           ELSE <<255, 255, 255, 255>>)
       \o U32(IF kind.size = -1 THEN Len(kind.blk) ELSE kind.size)

\* The profile with the tags ks: header, table, data; its tag count is the
\* number of entries plus extra, and its last cut bytes are cut off.
TagInput(ks, extra, cut) ==
    LET total == 132 + 12 * Len(ks) + BlocksLen(ks, Len(ks)) - cut
        header == Patch(Patch(Patch(Zeros(132), 0, U32(total)), 36, acsp),
                        128, U32(Len(ks) + extra))
        whole == header \o concat([j \in 1..Len(ks) |-> TagEntry(ks, j, total)])
                        \o concat([j \in 1..Len(ks) |-> TagKinds[ks[j]].blk])
    IN SubSeq(whole, 1, total)

\* the cuts tried: none, the last data cut to 10 or to 4 bytes, the table
\* cut 6 bytes before its end
TagCuts(ks) ==
    IF ks = <<>> THEN {0}
    ELSE LET last == Len(TagKinds[ks[Len(ks)]].blk)
         IN {0, last + 6} \cup (IF last > 10 THEN {last - 10, last - 4} ELSE {})

TagInputs ==
    { TagInput(x[1], x[2], x[3]) :
        x \in { <<ks, extra, cut>> \in
                   (UNION { [1..n -> 1..Len(TagKinds)] : n \in 0..MaxTags })
                   \X {0, 1} \X (0..60) : cut \in TagCuts(ks) /\ (extra = 1 => cut = 0) } }

IccInputs == ShortInputs \cup AttrInputs \cup TagInputs

Inputs ==
    { <<"jpeg", b>> : b \in JpegInputs } \cup { <<"png", b>> : b \in PngInputs }
      \cup { <<"icc", b>> : b \in IccInputs }

Init ==
    /\ \E in \in Inputs : op = in[1] /\ buf = in[2]
    /\ pc = IF op = "icc" THEN "start" ELSE "loop"
    /\ pos = 2
    /\ buffers = <<>>
    /\ offset = 8
    /\ profile = NoProfile
    /\ tagCount = 0
    /\ i = 0
    /\ tagHeaderOffset = 132
    /\ iters = 0
    /\ tagReads = {}
    /\ result = Pending

Next ==
    \/ JpegLoop
    \/ JpegReturn
    \/ PngLoop
    \/ PngReturn
    \/ ParseHeader
    \/ ParseAttrs
    \/ ParseTag
    \/ ParseReturn

Spec == Init /\ [][Next]_vars

(***************************************************************************)
(* Properties.                                                             *)
(***************************************************************************)
InvalidReasons ==
    {"length mismatch", "missing signature", "tag offset out of bounds",
     "description tag value size out of bounds", "mluc name record size must be 12"}

\* C1: every call of the ICC decoder ends with an attribute record or with
\* an 'Invalid ICC profile: <reason>' error, never with another failure.
C1_RecordOrInvalidProfile ==
    (op = "icc" /\ pc = "done") =>
        \/ result = Record
        \/ result \in { Invalid(r) : r \in InvalidReasons }

\* C2: when the scan of a JPEG has followed a length field past the end of
\* the buffer, the call fails with a MalformedContainer error.
C2_OverrunFails ==
    (op = "jpeg" /\ pc = "done" /\ pos > Len(buf)) =>
        (result.kind = "Error" /\ result.msg = "MalformedContainer")

\* s occurs in b at some position, top bits ignored
Occurs(s, b) ==
    \E k \in 0..(Len(b) - Len(s)) :
        asciiToString(SubSeq(b, k + 1, k + Len(s))) = s

\* C3: a JPEG buffer without ICC_PROFILE segment and a PNG buffer without
\* iCCP chunk give 'none', and no error.  (Stated for the buffers in which
\* the tag occurs nowhere at all.)
C3_AbsenceIsNone ==
    (/\ pc = "done"
     /\ \/ op = "jpeg" /\ ~Occurs(ICC_PROFILE, buf)
        \/ op = "png" /\ ~Occurs(iCCP, buf))
    => result = None

\* The segments of a buffer that is framed from 0-based position p on: each
\* a marker 0xFF.., a length field of 2 or more and the bytes it counts,
\* up to the end of the buffer or to an end-of-image marker that ends it.
RECURSIVE WellFramedFrom(_, _)
WellFramedFrom(b, p) ==
    \/ p = Len(b)
    \/ p = Len(b) - 2 /\ SubSeq(b, p + 1, p + 2) = <<255, 217>>
    \/ /\ p + 4 <= Len(b)
       /\ b[p + 1] = 255
       /\ b[p + 3] * 256 + b[p + 4] >= 2
       /\ p + 2 + b[p + 3] * 256 + b[p + 4] <= Len(b)
       /\ WellFramedFrom(b, p + 2 + b[p + 3] * 256 + b[p + 4])

\* The fragments the claim names, from position p on; a payload byte is
\* compared with a letter of ICC_PROFILE modulo modulus (256: as it is).
RECURSIVE Fragments(_, _, _)
Fragments(b, p, modulus) ==
    IF p + 4 > Len(b) THEN <<>>
    ELSE LET end == p + 2 + b[p + 3] * 256 + b[p + 4]
             payload == SubSeq(b, p + 5, end)
             tagged == /\ b[p + 1] = 255 /\ b[p + 2] = 226
                       /\ Len(payload) >= 11
                       /\ \A k \in 1..11 : payload[k] % modulus = ICC_PROFILE[k]
         IN (IF tagged THEN <<SubSeq(payload, 15, Len(payload))>> ELSE <<>>)
            \o Fragments(b, end, modulus)

JpegExpected(b, modulus) ==
    IF Fragments(b, 2, modulus) = <<>> THEN None
    ELSE Bytes(concat(Fragments(b, 2, modulus)))

\* C4: the result for a well-framed JPEG is the concatenation, in file
\* order, of the bytes from payload byte 14 to the segment's end of every
\* APP2 segment whose payload starts with ICC_PROFILE, and 'none' when
\* there is no such segment.
C4_ConcatenatesTaggedSegments ==
    (op = "jpeg" /\ pc = "done" /\ WellFramedFrom(buf, 2)) =>
        result = JpegExpected(buf, 256)

\* The same with every payload byte compared as line 10 decodes it.
JpegConcatenatesDecodedSegments ==
    (op = "jpeg" /\ pc = "done" /\ WellFramedFrom(buf, 2)) =>
        result = JpegExpected(buf, 128)

\* The offset of the first chunk, from offset o on and advancing by
\* length + 12, whose type is iCCP or IEND; -1 when the chunks end first.
RECURSIVE FirstDeciding(_, _, _)
FirstDeciding(b, o, modulus) ==
    IF o + 8 > Len(b) THEN -1
    ELSE IF [k \in 1..4 |-> b[o + 4 + k] % modulus] \in {iCCP, IEND} THEN o
    ELSE FirstDeciding(b, o + readUInt32BE(b, o) + 12, modulus)

PngDecidedBy(b, modulus) ==
    LET d == FirstDeciding(b, 8, modulus)
    IN d # -1 =>
         /\ offset = d
         /\ result = IF [k \in 1..4 |-> b[d + 4 + k] % modulus] = IEND THEN None
                     ELSE PngICCP(PngChunkData(b, d))

\* C5: the first chunk in stream order whose type is iCCP or IEND decides:
\* IEND gives 'none', iCCP the outcome of that chunk alone, and the cursor
\* never moves past it.
C5_FirstChunkDecides ==
    (op = "png" /\ pc = "done") => PngDecidedBy(buf, 256)

\* The same with the type compared as lines 35-37 decode it.
PngFirstDecodedChunkDecides ==
    (op = "png" /\ pc = "done") => PngDecidedBy(buf, 128)

\* the outcome the claim gives the iCCP chunk at offset o
C6Expected(b, o) ==
    LET n == readUInt32BE(b, o)
        data == SubSeq(b, o + 9, o + 8 + n)
        zeros == { k \in 1..Len(data) : data[k] = 0 }
        first == CHOOSE k \in zeros : \A j \in zeros : k <= j
    IN IF o + 8 + n > Len(b) THEN {Thrown("Invalid iCCP chunk format")}
       ELSE IF zeros = {} \/ first = Len(data)
       THEN {Thrown("Invalid iCCP chunk format")}
       ELSE IF data[first + 1] # 0 THEN {Thrown("Unsupported compression method")}
       ELSE LET inflated == inflateSync(SubSeq(data, first + 2, Len(data)))
            IN IF inflated.ok THEN {Bytes(inflated.out)}
               ELSE {Thrown("Failed to decompress ICC profile: " \o inflated.msg)}

\* C6: an iCCP chunk is malformed when its length field points outside the
\* buffer, when its data holds no zero byte, or when the first zero byte is
\* the last byte; else unsupported when the next byte is not 0; else the
\* rest is inflated, giving the profile or a decompression failure.
C6_IccpClassification ==
    (/\ op = "png" /\ pc = "done"
     /\ InRange(buf, offset, 8)
     /\ SubSeq(buf, offset + 5, offset + 8) = iCCP)
    => result \in C6Expected(buf, offset)

\* The same, the data being the part of the chunk that is in the buffer.
PngIccpClassificationOfClampedData ==
    (/\ op = "png" /\ pc = "done"
     /\ InRange(buf, offset, 8)
     /\ SubSeq(buf, offset + 5, offset + 8) = iCCP)
    => LET n == Min(readUInt32BE(buf, offset), Len(buf) - offset - 8)
       IN result \in C6Expected(Patch(buf, offset, U32(n)), offset)

\* C7: once the header is checked, a buffer of 4 bytes or more whose first
\* four bytes are not its length in big-endian has failed with 'length
\* mismatch', whatever its signature; one whose length is right and whose
\* bytes 36-39 are not 'acsp' has failed with 'missing signature'; and
\* neither has an attribute.
C7_StructuralChecksInOrder ==
    (op = "icc" /\ pc # "start" /\ Len(buf) >= 4) =>
        LET rightLength == SubSeq(buf, 1, 4) = U32(Len(buf))
            rightSignature == Len(buf) >= 40 /\ SubSeq(buf, 37, 40) = acsp
        IN /\ ~rightLength =>
                result = Invalid("length mismatch") /\ profile = NoProfile
           /\ (rightLength /\ ~rightSignature) =>
                result = Invalid("missing signature") /\ profile = NoProfile

C7_Witness ==
    /\ op = "icc" /\ pc = "done"
    /\ Len(buf) >= 40
    /\ SubSeq(buf, 1, 4) = U32(Len(buf))
    /\ SubSeq(buf, 37, 40) = <<97, 99, 115, 80>>
    /\ result = Invalid("missing signature")

\* C8: a tag iteration whose recognized entry points past the end of the
\* buffer fails with 'tag offset out of bounds' and reads nothing at the
\* tag; and every read a tag iteration makes at its tag is inside the
\* buffer.
C8_TagReadsInsideBuffer ==
    op = "icc" =>
        /\ \A r \in tagReads : InRange(buf, r, 4)
        /\ (/\ pc = "done" /\ i < tagCount
            /\ InRange(buf, tagHeaderOffset, 12)
            /\ SubSeq(buf, tagHeaderOffset + 1, tagHeaderOffset + 4) \in DOMAIN tagMap
            /\ readUInt32BE(buf, tagHeaderOffset + 4) > Len(buf))
           => (result = Invalid("tag offset out of bounds") /\ tagReads = {})

\* what the claim strips: spaces and nulls at the end
RECURSIVE StripTrailing(_)
StripTrailing(s) ==
    IF s # <<>> /\ s[Len(s)] \in {0, 32}
    THEN StripTrailing(SubSeq(s, 1, Len(s) - 1))
    ELSE s

\* v is s without the white space at its two ends
IsTrimOf(v, s) ==
    \E lead \in 0..Len(s) : \E trail \in 0..(Len(s) - lead) :
        /\ v = SubSeq(s, lead + 1, Len(s) - trail)
        /\ \A k \in 1..lead : IsWhiteSpace(s[k])
        /\ \A k \in (Len(s) - trail + 1)..Len(s) : IsWhiteSpace(s[k])
        /\ v # <<>> => (~IsWhiteSpace(v[1]) /\ ~IsWhiteSpace(v[Len(v)]))

\* the vocabulary codes that are v but for the case of letters
CodesOf(v) == { c \in DOMAIN valueMap : toLowerCase(c) = toLowerCase(v) }

\* v, or the human name of the vocabulary code it is
Named(v) == IF CodesOf(v) # {} THEN valueMap[CHOOSE c \in CodesOf(v) : TRUE] ELSE v

\* the four bytes of the field at offset off
Field(off) == SubSeq(buf, off + 1, off + 4)

C10_ScansTerminate ==
    /\ [][/\ (op = "jpeg" /\ iters' # iters /\ pc' = "loop") => pos' >= pos + 2
          /\ (op = "png" /\ iters' # iters /\ pc' = "loop") => offset' >= offset + 12]_vars
    /\ []((op \in {"jpeg", "png"}) => iters <= Len(buf))

C10_Witness ==
    /\ op = "jpeg" /\ pc = "done"
    /\ Len(buf) >= 6
    /\ buf[5] = 0 /\ buf[6] = 0
    /\ iters >= 2

====
